---------------------------- MODULE Spec2Model ----------------------------
(***************************************************************************)
(* Model of src/main.py: a FastAPI service over the process-wide list      *)
(* users_db, with the handlers health_check, debug_users, create_user,     *)
(* read_users and read_user, and the UserCreate request validation.        *)
(*                                                                         *)
(* Strings are sequences of one-character strings, so that str.strip(),    *)
(* the '@' membership test and == on emails are computed, not assumed.     *)
(*                                                                         *)
(* Two specifications:                                                     *)
(*   Spec      requests are processed one at a time, each handler is one   *)
(*             atomic action;                                              *)
(*   ConcSpec  create_user runs on worker threads (a sync endpoint runs in *)
(*             the thread pool), the scan of users_db and the append are   *)
(*             separate steps that interleave. FairConcSpec adds the       *)
(*             fairness of a thread that keeps running.                    *)
(***************************************************************************)
EXTENDS Integers, Sequences, FiniteSets

\* ------------------------------------------------------------------ bounds
\* ids offered in request bodies are 1..MaxId; paths also ask for MaxId + 1
MaxId == 2
\* skip and limit range over -MaxParam..MaxParam, or are omitted
MaxParam == 2
\* number of create requests the worker threads receive in ConcSpec
MaxRequests == 3

\* ------------------------------------------------------ program constants
DefaultSkip == 0
DefaultLimit == 100

VARIABLES
    users_db,   \* the in-memory list of user dicts
    request,    \* Spec: the request being answered
    response,   \* Spec: the response to it
    pc,         \* ConcSpec: per thread, where it is inside create_user
    user,       \* ConcSpec: per thread, the validated UserCreate it holds
    idx,        \* ConcSpec: per thread, the position of its list iterator
    result,     \* ConcSpec: per thread, the response it returned
    received    \* ConcSpec: number of create requests received so far

vars == <<users_db, request, response, pc, user, idx, result, received>>
seqVars == <<request, response>>
concVars == <<pc, user, idx, result, received>>

\* ------------------------------------------------------------------ inputs
Threads == {1, 2}
Ids == 1..MaxId
PathIds == 1..(MaxId + 1)
Names == { <<>>, <<" ">>, <<" ", "a">> }
Emails == { <<"a">>, <<"a", "@">>, <<"A", "@">>, <<"@">> }
Bodies == [id : Ids, name : Names, email : Emails]
Params == (-MaxParam)..MaxParam
Queries ==
    { s \cup l : s \in {{}} \cup { {<<"skip", k>>} : k \in Params },
                 l \in {{}} \cup { {<<"limit", k>>} : k \in Params } }

NoBody == [id |-> 0, name |-> <<>>, email |-> <<>>]
Req(kind, body, query, user_id) ==
    [kind |-> kind, body |-> body, query |-> query, user_id |-> user_id]

\* ---------------------------------------------------------------- strings
IsSpace(c) == c \in {" ", "\t", "\n"}

RECURSIVE lstrip(_)
lstrip(s) ==
    IF s # <<>> /\ IsSpace(Head(s)) THEN lstrip(Tail(s)) ELSE s

RECURSIVE rstrip(_)
rstrip(s) ==
    IF s # <<>> /\ IsSpace(s[Len(s)]) THEN rstrip(SubSeq(s, 1, Len(s) - 1)) ELSE s

strip(s) == rstrip(lstrip(s))

Contains(c, s) == \E i \in 1..Len(s) : s[i] = c

\* -------------------------------------------------------------- responses
Resp(status, shape, text, count, users) ==
    [status |-> status, shape |-> shape, text |-> text, count |-> count,
     users |-> users]

\* UserResponse(**d): the id, name and email of d
UserResponse(d) == [id |-> d.id, name |-> d.name, email |-> d.email]

RecordResp(d) == Resp(200, "record", "", 0, <<UserResponse(d)>>)
ListResp(ds) == Resp(200, "list", "", 0, [i \in 1..Len(ds) |-> UserResponse(ds[i])])
JSONResponse(status, key, text) == Resp(status, key, text, 0, <<>>)
ValidationResp == Resp(422, "detail", "validation error", 0, <<>>)
NoResp == Resp(0, "none", "", 0, <<>>)

\* what a handler body does: return a response, or raise
Return(r) == [kind |-> "return", resp |-> r, status |-> 0, detail |-> ""]
HTTPException(status, detail) ==
    [kind |-> "HTTPException", resp |-> NoResp, status |-> status, detail |-> detail]

\* faulty variant: no `except HTTPException: raise` before `except Exception`
GuardWrapsAll(outcome, failDetail) ==
    IF outcome.kind = "return" THEN outcome.resp
    ELSE JSONResponse(500, "detail", failDetail)

\* try: <body>  except HTTPException: raise
\*              except Exception: raise HTTPException(500, failDetail)
Guard(outcome, failDetail) ==
    CASE outcome.kind = "return" -> outcome.resp
      [] outcome.kind = "HTTPException" ->
            JSONResponse(outcome.status, "detail", outcome.detail)
      [] OTHER -> JSONResponse(500, "detail", failDetail)

\* ------------------------------------------------------------- validation
\* faulty variant: only `not v`, no strip()
name_required_no_strip(v) == v # <<>>

name_required(v) == ~(v = <<>> \/ strip(v) = <<>>)
email_must_contain_at(v) == Contains("@", v)
UserCreate(body) == name_required(body.name) /\ email_must_contain_at(body.email)

\* ------------------------------------------------------------------ store
\* faulty variant: the scan leaves out the last record
RECURSIVE find_by_email_but_last(_, _, _)
find_by_email_but_last(db, i, email) ==
    IF i >= Len(db) THEN 0
    ELSE IF db[i].email = email THEN i
    ELSE find_by_email_but_last(db, i + 1, email)

\* for existing_user in users_db: if existing_user["email"] == email
RECURSIVE find_by_email(_, _, _)
find_by_email(db, i, email) ==
    IF i > Len(db) THEN 0
    ELSE IF db[i].email = email THEN i
    ELSE find_by_email(db, i + 1, email)

\* faulty variant: the last record with the id wins
RECURSIVE find_by_id_last(_, _, _)
find_by_id_last(db, i, user_id) ==
    IF i > Len(db) THEN 0
    ELSE IF find_by_id_last(db, i + 1, user_id) # 0
         THEN find_by_id_last(db, i + 1, user_id)
    ELSE IF db[i].id = user_id THEN i
    ELSE 0

\* for user in users_db: if user["id"] == user_id
RECURSIVE find_by_id(_, _, _)
find_by_id(db, i, user_id) ==
    IF i > Len(db) THEN 0
    ELSE IF db[i].id = user_id THEN i
    ELSE find_by_id(db, i + 1, user_id)

Min(a, b) == IF a < b THEN a ELSE b
Max(a, b) == IF a > b THEN a ELSE b

\* a slice bound as list.__getitem__ normalises it
SliceIndex(k, n) == IF k < 0 THEN Max(k + n, 0) ELSE Min(k, n)

\* s[start:stop]
PySlice(s, start, stop) ==
    SubSeq(s, SliceIndex(start, Len(s)) + 1, SliceIndex(stop, Len(s)))

\* a query parameter, or its default when omitted
Param(query, name, default) ==
    IF \E p \in query : p[1] = name
    THEN (CHOOSE p \in query : p[1] = name)[2]
    ELSE default

\* --------------------------------------------------------------- handlers
health_check == JSONResponse(200, "status", "OK")

debug_users(db) == Resp(200, "debug", "", Len(db), db)

\* faulty variant: the duplicate check also compares the id
create_user_same_id(db, u) ==
    IF \E i \in 1..Len(db) : db[i].email = u.email /\ db[i].id = u.id
    THEN [users_db |-> db,
          response |-> Guard(Return(JSONResponse(400, "error", "User already exists")),
                             "Failed to create user")]
    ELSE LET new_user == [id |-> u.id, name |-> u.name, email |-> u.email]
         IN  [users_db |-> Append(db, new_user),
              response |-> Guard(Return(RecordResp(new_user)), "Failed to create user")]

\* faulty variant: the new record is put in front
create_user_in_front(db, u) ==
    IF find_by_email(db, 1, u.email) # 0
    THEN [users_db |-> db,
          response |-> Guard(Return(JSONResponse(400, "error", "User already exists")),
                             "Failed to create user")]
    ELSE LET new_user == [id |-> u.id, name |-> u.name, email |-> u.email]
         IN  [users_db |-> <<new_user>> \o db,
              response |-> Guard(Return(RecordResp(new_user)), "Failed to create user")]

\* the handler's new users_db and its response
create_user(db, u) ==
    IF find_by_email(db, 1, u.email) # 0
    THEN [users_db |-> db,
          response |-> Guard(Return(JSONResponse(400, "error", "User already exists")),
                             "Failed to create user")]
    ELSE LET new_user == [id |-> u.id, name |-> u.name, email |-> u.email]
         IN  [users_db |-> Append(db, new_user),
              response |-> Guard(Return(RecordResp(new_user)), "Failed to create user")]

\* faulty variant: users_db[skip:limit]
read_users_to_limit(db, skip, limit) ==
    Guard(Return(ListResp(PySlice(db, skip, limit))), "Failed to fetch users")

\* faulty variant: negative skip and limit are raised to 0 before slicing
read_users_clamped(db, skip, limit) ==
    Guard(Return(ListResp(PySlice(db, Max(skip, 0), Max(skip, 0) + Max(limit, 0)))),
          "Failed to fetch users")

read_users(db, skip, limit) ==
    Guard(Return(ListResp(PySlice(db, skip, skip + limit))),
          "Failed to fetch users")

\* faulty variant: the scan starts at the second record
read_user_from_second(db, user_id) ==
    Guard(IF find_by_id(db, 2, user_id) # 0
          THEN Return(RecordResp(db[find_by_id(db, 2, user_id)]))
          ELSE HTTPException(404, "User not found"),
          "Failed to fetch user")

read_user(db, user_id) ==
    Guard(IF find_by_id(db, 1, user_id) # 0
          THEN Return(RecordResp(db[find_by_id(db, 1, user_id)]))
          ELSE HTTPException(404, "User not found"),
          "Failed to fetch user")

\* ------------------------------------------------- Spec: one at a time
Init ==
    /\ users_db = <<>>
    /\ request = Req("none", NoBody, {}, 0)
    /\ response = NoResp
    /\ pc = [t \in Threads |-> "idle"]
    /\ user = [t \in Threads |-> NoBody]
    /\ idx = [t \in Threads |-> 0]
    /\ result = [t \in Threads |-> NoResp]
    /\ received = 0

HealthCheck ==
    /\ request' = Req("health", NoBody, {}, 0)
    /\ response' = health_check
    /\ UNCHANGED <<users_db, concVars>>

DebugUsers ==
    /\ request' = Req("debug", NoBody, {}, 0)
    /\ response' = debug_users(users_db)
    /\ UNCHANGED <<users_db, concVars>>

CreateUser(body) ==
    /\ request' = Req("create", body, {}, 0)
    /\ IF UserCreate(body)
       THEN /\ response' = create_user(users_db, body).response
            /\ users_db' = create_user(users_db, body).users_db
       ELSE /\ response' = ValidationResp
            /\ UNCHANGED users_db
    /\ UNCHANGED concVars

ReadUsers(query) ==
    /\ request' = Req("list", NoBody, query, 0)
    /\ response' = read_users(users_db, Param(query, "skip", DefaultSkip),
                              Param(query, "limit", DefaultLimit))
    /\ UNCHANGED <<users_db, concVars>>

ReadUser(user_id) ==
    /\ request' = Req("get", NoBody, {}, user_id)
    /\ response' = read_user(users_db, user_id)
    /\ UNCHANGED <<users_db, concVars>>

Next ==
    \/ HealthCheck
    \/ DebugUsers
    \/ \E body \in Bodies : CreateUser(body)
    \/ \E query \in Queries : ReadUsers(query)
    \/ \E user_id \in PathIds : ReadUser(user_id)

Spec == Init /\ [][Next]_vars

\* --------------------------------- ConcSpec: create_user on two threads
\* A thread takes a POST /users. The body is validated before create_user is
\* called; a valid one enters the handler with its list iterator at 0.
Receive(t, body) ==
    /\ pc[t] \in {"idle", "done"}
    /\ received < MaxRequests
    /\ received' = received + 1
    /\ idx' = [idx EXCEPT ![t] = 0]
    /\ IF UserCreate(body)
       THEN /\ pc' = [pc EXCEPT ![t] = "scan"]
            /\ user' = [user EXCEPT ![t] = body]
            /\ result' = [result EXCEPT ![t] = NoResp]
       ELSE /\ pc' = [pc EXCEPT ![t] = "done"]
            /\ user' = [user EXCEPT ![t] = NoBody]
            /\ result' = [result EXCEPT ![t] = ValidationResp]
    /\ UNCHANGED <<users_db, seqVars>>

\* One turn of `for existing_user in users_db`: the iterator reads the list as
\* it is now, so records appended meanwhile are seen.
ScanStep(t) ==
    /\ pc[t] = "scan"
    /\ IF idx[t] < Len(users_db)
       THEN IF users_db[idx[t] + 1].email = user[t].email
            THEN /\ pc' = [pc EXCEPT ![t] = "done"]
                 /\ result' = [result EXCEPT ![t] =
                        Guard(Return(JSONResponse(400, "error", "User already exists")),
                              "Failed to create user")]
                 /\ UNCHANGED idx
            ELSE /\ idx' = [idx EXCEPT ![t] = idx[t] + 1]
                 /\ UNCHANGED <<pc, result>>
       ELSE /\ pc' = [pc EXCEPT ![t] = "append"]
            /\ UNCHANGED <<idx, result>>
    /\ UNCHANGED <<users_db, user, received, seqVars>>

\* faulty variant: the email is looked for again, in the same step as the append
AppendStepRechecks(t) ==
    /\ pc[t] = "append"
    /\ pc' = [pc EXCEPT ![t] = "done"]
    /\ result' = [result EXCEPT ![t] = create_user(users_db, user[t]).response]
    /\ users_db' = create_user(users_db, user[t]).users_db
    /\ UNCHANGED <<user, idx, received, seqVars>>

\* new_user = {...}; users_db.append(new_user); return UserResponse(**new_user)
AppendStep(t) ==
    /\ pc[t] = "append"
    /\ LET new_user == [id |-> user[t].id, name |-> user[t].name,
                        email |-> user[t].email]
       IN  /\ users_db' = Append(users_db, new_user)
           /\ result' = [result EXCEPT ![t] =
                  Guard(Return(RecordResp(new_user)), "Failed to create user")]
    /\ pc' = [pc EXCEPT ![t] = "done"]
    /\ UNCHANGED <<user, idx, received, seqVars>>

ConcNext ==
    \E t \in Threads :
        \/ \E body \in Bodies : Receive(t, body)
        \/ ScanStep(t)
        \/ AppendStep(t)

ConcSpec == Init /\ [][ConcNext]_vars

\* a thread inside the handler keeps running
FairConcSpec ==
    ConcSpec /\ \A t \in Threads : WF_vars(ScanStep(t) \/ AppendStep(t))


\* ================================================================ claims
CreateReq(body) == Req("create", body, {}, 0)
ListReq(query) == Req("list", NoBody, query, 0)
GetReq(user_id) == Req("get", NoBody, {}, user_id)
HasEmail(db, email) == \E k \in 1..Len(db) : db[k].email = email
HasId(db, user_id) == \E k \in 1..Len(db) : db[k].id = user_id
\* the body breaks one of the two field rules, stated without strip()
BreaksRules(body) ==
    \/ \A k \in 1..Len(body.name) : body.name[k] \in {" ", "\t", "\n"}
    \/ \A k \in 1..Len(body.email) : body.email[k] # "@"

\* C1: with requests processed one at a time, no two records of users_db
\* have the same email.
C1_EmailsUnique ==
    \A i, j \in 1..Len(users_db) :
        i # j => users_db[i].email # users_db[j].email

\* a duplicate was turned away from a store that holds several records
C1_Witness ==
    /\ request.kind = "create"
    /\ response.status = 400
    /\ Len(users_db) >= 2
    /\ HasEmail(users_db, request.body.email)

\* C2: when two threads hold create requests with the same email and each has
\* finished its scan before the other appended (both stand at the append),
\* each of them, when it moves, appends its record and answers 200, and
\* users_db comes to hold two records with that email.
Racing(t1, t2) ==
    /\ t1 # t2
    /\ pc[t1] = "append"
    /\ pc[t2] = "append"
    /\ user[t1].email = user[t2].email

TwoWithEmail(email) ==
    \E i, j \in 1..Len(users_db) :
        i < j /\ users_db[i].email = email /\ users_db[j].email = email

C2_RaceStoresDuplicate ==
    /\ [][\A t1, t2 \in Threads :
            Racing(t1, t2) /\ pc'[t1] # pc[t1] =>
                /\ result'[t1].status = 200
                /\ result'[t1].users = <<user[t1]>>
                /\ users_db' = Append(users_db, user[t1])]_vars
    /\ \A email \in Emails :
            (\E t1, t2 \in Threads : Racing(t1, t2) /\ user[t1].email = email)
                ~> TwoWithEmail(email)

\* both threads were answered 200 for the same email
C2_Witness ==
    /\ pc[1] = "done" /\ pc[2] = "done"
    /\ result[1].status = 200 /\ result[2].status = 200
    /\ user[1].email = user[2].email
    /\ user[1].id # user[2].id
    /\ TwoWithEmail(user[1].email)

\* C3: a create request that passes validation and whose email no stored
\* record has makes users_db one longer, with the new record (the input's id,
\* name and email) last and the earlier records as they were, and is answered
\* 200 with that record.
C3_CreateAppends ==
    [][\A body \in Bodies :
        (request' = CreateReq(body) /\ ~BreaksRules(body)
            /\ ~HasEmail(users_db, body.email)) =>
            /\ Len(users_db') = Len(users_db) + 1
            /\ users_db'[Len(users_db')] = body
            /\ SubSeq(users_db', 1, Len(users_db)) = users_db
            /\ response' = Resp(200, "record", "", 0, <<body>>)]_vars

C3_Witness ==
    /\ request.kind = "create"
    /\ response.status = 200
    /\ Len(users_db) >= 2
    /\ users_db[Len(users_db)] = request.body
    /\ response.users = <<request.body>>

\* C4: a create request that passes validation and whose email some stored
\* record has is answered 400 {"error": "User already exists"}, whatever its
\* id and name, and users_db is unchanged.
C4_DuplicateRejected ==
    [][\A body \in Bodies :
        (request' = CreateReq(body) /\ ~BreaksRules(body)
            /\ HasEmail(users_db, body.email)) =>
            /\ response' = Resp(400, "error", "User already exists", 0, <<>>)
            /\ users_db' = users_db]_vars

\* the rejected request has the email of a record with another id
C4_Witness ==
    /\ request.kind = "create"
    /\ response.status = 400
    /\ response.shape = "error"
    /\ \E k \in 1..Len(users_db) :
            /\ users_db[k].email = request.body.email
            /\ users_db[k].id # request.body.id

\* C5: a create request whose name is empty or all whitespace, or whose email
\* has no '@', is answered 422 and users_db is unchanged, also when its email
\* is the email of a stored record.
C5_ValidationFirst ==
    [][\A body \in Bodies :
        (request' = CreateReq(body) /\ BreaksRules(body)) =>
            /\ response'.status = 422
            /\ users_db' = users_db]_vars

\* a whitespace-only name with the email of a stored record: 422, not 400
C5_Witness ==
    /\ request.kind = "create"
    /\ request.body.name = <<" ">>
    /\ HasEmail(users_db, request.body.email)
    /\ response.status = 422

\* C6 as stated: a GET /users/i that follows a successful create with id i
\* returns the record that create stored.
C6_GetReturnsCreated ==
    [][(request.kind = "create" /\ response.status = 200
            /\ request' = GetReq(request.body.id)) =>
            response' = Resp(200, "record", "", 0, <<request.body>>)]_vars

\* C6 amended: the records of users_db stay where they are, and GET /users/i
\* returns the record whose create was the first to succeed with id i.
C6_GetReturnsFirstCreated ==
    [][/\ \A k \in 1..Len(users_db) :
              Len(users_db') >= k /\ users_db'[k] = users_db[k]
       /\ (request.kind = "create" /\ response.status = 200
              /\ ~HasId(SubSeq(users_db, 1, Len(users_db) - 1), request.body.id)
              /\ request' = GetReq(request.body.id)) =>
              response' = Resp(200, "record", "", 0, <<request.body>>)
       /\ \A i \in PathIds : \A k \in 1..Len(users_db) :
              (request' = GetReq(i) /\ users_db[k].id = i
                  /\ ~HasId(SubSeq(users_db, 1, k - 1), i)) =>
                  response' = Resp(200, "record", "", 0, <<users_db[k]>>)]_vars

\* a record that was stored second, under an id of its own, is returned
C6_Witness ==
    /\ request.kind = "get"
    /\ Len(users_db) >= 2
    /\ users_db[2].id = request.user_id
    /\ users_db[1].id # request.user_id
    /\ response = Resp(200, "record", "", 0, <<users_db[2]>>)

\* C7: GET /users/i for an id no stored record has is answered 404 with
\* detail "User not found" (not the 500 "Failed to fetch user"), and users_db
\* is unchanged.
C7_NotFound ==
    [][\A i \in PathIds :
        (request' = GetReq(i) /\ ~HasId(users_db, i)) =>
            /\ response' = Resp(404, "detail", "User not found", 0, <<>>)
            /\ users_db' = users_db]_vars

C7_Witness ==
    /\ request.kind = "get"
    /\ Len(users_db) >= 1
    /\ ~HasId(users_db, request.user_id)
    /\ response.status = 404

\* the skip and limit of a query, 0 and 100 when omitted
SkipOf(query) ==
    IF \E k \in Params : <<"skip", k>> \in query
    THEN CHOOSE k \in Params : <<"skip", k>> \in query
    ELSE 0
LimitOf(query) ==
    IF \E k \in Params : <<"limit", k>> \in query
    THEN CHOOSE k \in Params : <<"limit", k>> \in query
    ELSE 100
\* the records at 0-based positions first .. last - 1
Run(db, first, last) ==
    [k \in 1..(IF last > first THEN last - first ELSE 0) |-> db[first + k]]

\* C8: for skip >= 0 and limit >= 0 (0 and 100 when omitted), GET /users
\* returns the records at positions skip .. min(skip + limit, n) - 1 in
\* insertion order, and users_db is unchanged.
C8_ListSlice ==
    [][\A query \in Queries :
        (request' = ListReq(query) /\ SkipOf(query) >= 0 /\ LimitOf(query) >= 0) =>
            /\ response' = Resp(200, "list", "", 0,
                    Run(users_db, SkipOf(query),
                        Min(SkipOf(query) + LimitOf(query), Len(users_db))))
            /\ users_db' = users_db]_vars

\* skip=1, limit=1 over three records returns the second
C8_Witness ==
    /\ request = ListReq({<<"skip", 1>>, <<"limit", 1>>})
    /\ Len(users_db) = 3
    /\ response.users = <<users_db[2]>>

\* C9: GET /users/i returns the first record with id i; a record that has an
\* earlier record with its id stays where it is, behind that record, and no
\* GET /users/{id} returns it.
Shadowed(db, k) == k \in 1..Len(db) /\ HasId(SubSeq(db, 1, k - 1), db[k].id)

C9_FirstMatchShadows ==
    [][/\ \A k \in 1..Len(users_db) :
              Shadowed(users_db, k) =>
                  Shadowed(users_db', k) /\ users_db'[k] = users_db[k]
       /\ \A i \in PathIds :
              request' = GetReq(i) =>
                  /\ \A k \in 1..Len(users_db) :
                         Shadowed(users_db, k) => response'.users # <<users_db[k]>>
                  /\ HasId(users_db, i) =>
                         /\ response'.status = 200
                         /\ \E k \in 1..Len(users_db) :
                                /\ response'.users = <<users_db[k]>>
                                /\ users_db[k].id = i
                                /\ \A j \in 1..(k - 1) : users_db[j].id # i]_vars

\* the id asked for is held by two records, and the first came back
C9_Witness ==
    /\ request.kind = "get"
    /\ \E k \in 2..Len(users_db) :
            /\ users_db[k].id = request.user_id
            /\ Shadowed(users_db, k)
    /\ response.status = 200
    /\ response.users[1].id = request.user_id

\* the result is a run of stored records that starts at max(skip, 0) or
\* later and has at most max(limit, 0) records
BoundedRun(db, users, skip, limit) ==
    \E first \in 0..Len(db) :
        /\ Len(users) <= Len(db) - first
        /\ users = Run(db, first, first + Len(users))
        /\ Len(users) > 0 => first >= Max(skip, 0)
        /\ Len(users) <= Max(limit, 0)

\* C10 as stated: for all integers skip and limit GET /users is answered 200
\* with a run of stored records in insertion order that starts no earlier
\* than max(skip, 0) and has at most max(limit, 0) records.
C10_ClampedToLimit ==
    [][\A query \in Queries :
        request' = ListReq(query) =>
            /\ response'.status = 200
            /\ BoundedRun(users_db, response'.users, SkipOf(query), LimitOf(query))]_vars

\* C10 amended: GET /users is always answered 200; the result is such a run
\* unless skip >= 0 and skip + limit < 0, and then it is the records at
\* positions skip .. n + skip + limit - 1.
C10_ClampedSlice ==
    [][\A query \in Queries :
        request' = ListReq(query) =>
            /\ response'.status = 200
            /\ users_db' = users_db
            /\ IF SkipOf(query) >= 0 /\ SkipOf(query) + LimitOf(query) < 0
               THEN response'.users =
                        Run(users_db, SkipOf(query),
                            Len(users_db) + SkipOf(query) + LimitOf(query))
               ELSE BoundedRun(users_db, response'.users,
                               SkipOf(query), LimitOf(query))]_vars

\* a negative limit returned records
C10_Witness ==
    /\ request.kind = "list"
    /\ LimitOf(request.query) < 0
    /\ SkipOf(request.query) >= 0
    /\ Len(response.users) > 0

=============================================================================
